---- MODULE Spec2Model ----
(***************************************************************************)
(* Model of the RACM600 PMBus power-supply driver (src/RACM600.cpp).       *)
(*                                                                         *)
(* The driver is a thin layer over the Arduino Wire bus object and the     *)
(* Serial console.  Every driver function is modelled statement by         *)
(* statement: one step per call of a Wire primitive, one step per `if` of  *)
(* the fault decoder.  The bus object (its transmit and receive buffers)   *)
(* is shared state; the power supply is the environment and answers a read *)
(* with the register selected by the last command byte it received.        *)
(***************************************************************************)
EXTENDS Integers, Sequences, FiniteSets, TLC

(* ------------------------------------------------------------------ *)
(* Command codes and the default address (src/RACM600.h)              *)
(* ------------------------------------------------------------------ *)
RACM600_DEFAULT_ADDR == 39
RACM600_OPERATION == 1
RACM600_CLEAR_FAULTS == 3
RACM600_VOUT_OV_FAULT_LIMIT == 64
RACM600_STATUS_WORD == 121
RACM600_STATUS_VOUT == 122
RACM600_STATUS_IOUT == 123
RACM600_STATUS_INPUT == 124
RACM600_STATUS_TEMPERATURE == 125
RACM600_STATUS_CML == 126
RACM600_READ_VOUT == 139
RACM600_READ_IOUT == 140
RACM600_READ_TEMPERATURE_1 == 141
RACM600_READ_TEMPERATURE_2 == 142
RACM600_READ_TEMPERATURE_3 == 143

(* ------------------------------------------------------------------ *)
(* Integer helpers: C++ bit operators on non-negative integers         *)
(* ------------------------------------------------------------------ *)
RECURSIVE BitAnd(_, _)
BitAnd(a, b) ==
    IF a = 0 \/ b = 0 THEN 0
    ELSE ((a % 2) * (b % 2)) + 2 * BitAnd(a \div 2, b \div 2)

RECURSIVE BitOr(_, _)
BitOr(a, b) ==
    IF a = 0 THEN b
    ELSE IF b = 0 THEN a
    ELSE (IF (a % 2) + (b % 2) > 0 THEN 1 ELSE 0) + 2 * BitOr(a \div 2, b \div 2)

ShiftLeft(a, n) == a * (2 ^ n)

\* conversion to uint16_t / uint8_t
U16(x) == x % 65536
\* mutant: the conversion to uint8_t left out
U8Wide(x) == x

U8(x) == x % 256

\* Arduino's lowByte() and highByte() macros
lowByte(w) == BitAnd(w, 255)
highByte(w) == U8(w \div 256)

RECURSIVE PopCount(_)
PopCount(x) == IF x = 0 THEN 0 ELSE (x % 2) + PopCount(x \div 2)

HexDigit(d) ==
    <<"0", "1", "2", "3", "4", "5", "6", "7",
      "8", "9", "A", "B", "C", "D", "E", "F">>[d + 1]

\* Print::print(n, HEX): most significant digit first, no leading zeros,
\* a single "0" for zero
RECURSIVE Hex(_)
Hex(n) == IF n < 16 THEN <<HexDigit(n)>> ELSE Hex(n \div 16) \o <<HexDigit(n % 16)>>

(* ------------------------------------------------------------------ *)
(* Bounds of the model                                                 *)
(* ------------------------------------------------------------------ *)
\* number of consecutive write-only operations kept in one log window
MaxOps == 2

\* the callers that may use the device handle
Callers == {1, 2}

\* bus addresses given to the constructor
Addrs == {RACM600_DEFAULT_ADDR, 80}

\* sample bytes the supply puts into a word register: no bit, each bit
\* alone, alternating bits, all but the top bit, every bit
ByteSamples == {0, 1, 2, 4, 8, 16, 32, 64, 128, 85, 170, 127, 255}

\* sample contents of STATUS_WORD: nothing set, each bit alone, and mixes
StatusWords ==
    {0} \cup {2 ^ i : i \in 0..15} \cup {33, 62, 48, 193, 1056, 64255, 65535}

\* arguments of the helper calls
WriteCmds == {RACM600_OPERATION, RACM600_VOUT_OV_FAULT_LIMIT}
WriteValues == {128, 4660}
ReadCmds == {0, RACM600_STATUS_WORD, RACM600_STATUS_VOUT, RACM600_READ_VOUT, 169}

\* the two bytes of a register word in wire order
WordBytes(w) == <<w % 256, w \div 256>>

DetailRegs ==
    {RACM600_STATUS_VOUT, RACM600_STATUS_IOUT, RACM600_STATUS_INPUT,
     RACM600_STATUS_TEMPERATURE, RACM600_STATUS_CML}

\* What the supply may deliver to a 2-byte request after command byte reg was
\* framed: nothing (no answer), one byte (short read), or two bytes.
Responses(reg) ==
    IF reg = RACM600_STATUS_WORD
    THEN {<<>>, <<33>>} \cup {WordBytes(w) : w \in StatusWords}
    ELSE IF reg = RACM600_STATUS_VOUT
    THEN {<<>>, <<136>>, <<0, 0>>, <<136, 0>>, <<136, 255>>, <<255, 0>>}
    ELSE IF reg \in DetailRegs
    THEN {<<>>, <<0, 0>>, <<255, 1>>}
    ELSE {<<>>, <<100>>, <<100, 0>>}
         \cup {<<l, h>> : l \in ByteSamples, h \in ByteSamples}

\* second bytes the supply appends to the byte of a detail register
DetailHighSamples == {0, 255}

\* The answers in the scenario that decodes one detail register per call: the
\* status word has one category bit set, the detail register holds any byte
\* value, delivered with a second byte, alone, or not at all.
DetailResponses(reg) ==
    IF reg = RACM600_STATUS_WORD
    THEN {WordBytes(w) : w \in {32, 16, 8, 4, 2}}
    ELSE {<<>>} \cup {<<b>> : b \in 0..255}
         \cup {<<b, h>> : b \in 0..255, h \in DetailHighSamples}

(* ------------------------------------------------------------------ *)
(* State                                                               *)
(* ------------------------------------------------------------------ *)
VARIABLES
    address,       \* RACM600::_address
    transmitting,  \* Wire: a write transaction is open
    txAddress,     \* Wire: target of the open write transaction
    txBuf,         \* Wire: bytes queued by write() since beginTransmission
    rxBuf,         \* Wire: bytes received by requestFrom and not yet read
    devReg,        \* supply: command byte of the last write frame on the wire
    th,            \* per caller: position and locals of the running call
    ops,           \* log window: the operations called, with their results
    calls,         \* log window: Wire primitive calls made by the driver
    bus,           \* log window: transfers the master put on the wire
    serial,        \* log window: lines printed on Serial
    scenario       \* which answers the supply gives and how callers are scheduled

vars ==
    <<address, transmitting, txAddress, txBuf, rxBuf, devReg, th, ops, calls,
      bus, serial, scenario>>

\* The answers in the scenarios with two callers: every register holds its
\* own command code, so a word shows which register it was read from; it
\* arrives whole or cut to one byte.
SharedResponses(reg) == {<<reg, 0>>, <<reg>>}

\* what the supply may deliver in the current scenario
Answers(reg) ==
    CASE scenario = "detail" -> DetailResponses(reg)
      [] scenario \in {"shared", "exclusive"} -> SharedResponses(reg)
      [] OTHER -> Responses(reg)

wireVars == <<transmitting, txAddress, txBuf, rxBuf, devReg>>
logVars == <<ops, calls, bus, serial>>

(* ------------------------------------------------------------------ *)
(* The driver's functions as sequences of Wire calls                   *)
(* ------------------------------------------------------------------ *)
\* one call of a Wire primitive: f its name, v its argument (the byte of a
\* write, the sendStop flag of endTransmission, the count of requestFrom);
\* the address argument is the handle's _address, read when the call is made
Ins(f, v) == [f |-> f, v |-> v]

\* void RACM600::begin()
beginBody == <<Ins("begin", 0)>>

\* mutant: the command write ends with a stop condition
readCommandBodyStop(cmd) ==
    <<Ins("beginTransmission", 0), Ins("write", cmd), Ins("endTransmission", 1),
      Ins("requestFrom", 2)>>

\* the Wire calls of readCommand up to the request of the two bytes
readCommandBody(cmd) ==
    <<Ins("beginTransmission", 0), Ins("write", cmd), Ins("endTransmission", 0),
      Ins("requestFrom", 2)>>

\* mutant: the two bytes taken in the other order
readCommandResultSwapped(low, high) == U16(BitOr(ShiftLeft(low, 8), high))

\* return (high << 8) | low;  the int result converted to uint16_t
readCommandResult(low, high) == U16(BitOr(ShiftLeft(high, 8), low))

\* mutant: the value sent high byte first
writeCommandBodyBigEndian(cmd, value) ==
    <<Ins("beginTransmission", 0), Ins("write", cmd), Ins("write", highByte(value)),
      Ins("write", lowByte(value)), Ins("endTransmission", 1)>>

writeCommandBody(cmd, value) ==
    <<Ins("beginTransmission", 0), Ins("write", cmd), Ins("write", lowByte(value)),
      Ins("write", highByte(value)), Ins("endTransmission", 1)>>

\* mutant: bit 0 written instead of bit 7
enableOutputBodyBit0 ==
    <<Ins("beginTransmission", 0), Ins("write", RACM600_OPERATION), Ins("write", 1),
      Ins("endTransmission", 1)>>

enableOutputBody ==
    <<Ins("beginTransmission", 0), Ins("write", RACM600_OPERATION), Ins("write", 128),
      Ins("endTransmission", 1)>>

\* mutant: the command byte left out
disableOutputBodyNoCmd ==
    <<Ins("beginTransmission", 0), Ins("write", 0), Ins("endTransmission", 1)>>

disableOutputBody ==
    <<Ins("beginTransmission", 0), Ins("write", RACM600_OPERATION), Ins("write", 0),
      Ins("endTransmission", 1)>>

\* mutant: clearFaults sent as a write-byte with a zero payload byte
clearFaultsBodyPayload ==
    <<Ins("beginTransmission", 0), Ins("write", RACM600_CLEAR_FAULTS), Ins("write", 0),
      Ins("endTransmission", 1)>>

\* mutant: clearFaults returns without ending its transmission
clearFaultsBodyOpen ==
    <<Ins("beginTransmission", 0), Ins("write", RACM600_CLEAR_FAULTS)>>

clearFaultsBody ==
    <<Ins("beginTransmission", 0), Ins("write", RACM600_CLEAR_FAULTS),
      Ins("endTransmission", 1)>>

\* the command each telemetry function reads and the divisor of its scale
\* factor (raw * 0.01 is raw / 100, a plain raw is raw / 1); the float result
\* is kept as that fraction, its rounding to a float is not modelled.
\* readDCOUTPUTTemperature passes the literal 0x8F, the value of
\* RACM600_READ_TEMPERATURE_3 (the macro stands in its parameter list).
TelemetryOps ==
    {"readVoltage", "readCurrent", "readAmbientTemperature",
     "readACINPUTTemperature", "readDCOUTPUTTemperature"}

TelemetryCmd(op) ==
    CASE op = "readVoltage" -> RACM600_READ_VOUT
      [] op = "readCurrent" -> RACM600_READ_IOUT
      [] op = "readAmbientTemperature" -> RACM600_READ_TEMPERATURE_1
      [] op = "readACINPUTTemperature" -> RACM600_READ_TEMPERATURE_2
      [] op = "readDCOUTPUTTemperature" -> RACM600_READ_TEMPERATURE_3

\* mutant: the temperatures scaled by 0.01 like the voltage
TelemetryDivisorAll(op) == 100

TelemetryDivisor(op) ==
    IF op \in {"readVoltage", "readCurrent"} THEN 100 ELSE 1

(* ------------------------------------------------------------------ *)
(* The fault decoder's tables                                          *)
(* ------------------------------------------------------------------ *)
Chk(mask, text, detail, reg, type) ==
    [mask |-> mask, text |-> text, detail |-> detail, reg |-> reg, type |-> type]

\* mutant: the terminal bit 0x0040 also consults the output-voltage register
FaultChecksOutputOffDetail ==
    <<Chk(128, "FAULT: Device Busy", FALSE, 0, ""),
      Chk(64, "FAULT: Power Output Off", TRUE, RACM600_STATUS_VOUT,
          "Output Voltage Fault"),
      Chk(32, "FAULT: Output Overvoltage", TRUE, RACM600_STATUS_VOUT,
          "Output Voltage Fault"),
      Chk(16, "FAULT: Output Overcurrent", TRUE, RACM600_STATUS_IOUT,
          "Output Current Fault"),
      Chk(8, "FAULT: Input Undervoltage", TRUE, RACM600_STATUS_INPUT, "Input Fault"),
      Chk(4, "FAULT: Temperature Fault", TRUE, RACM600_STATUS_TEMPERATURE,
          "Temperature Fault"),
      Chk(2, "FAULT: Communication Fault (CML)", TRUE, RACM600_STATUS_CML,
          "Communication Fault"),
      Chk(1, "FAULT: Unknown Fault", FALSE, 0, "")>>

\* mutant: the overcurrent check and its detail read moved ahead of the
\* overvoltage check
FaultChecksIoutFirst ==
    <<Chk(128, "FAULT: Device Busy", FALSE, 0, ""),
      Chk(64, "FAULT: Power Output Off", FALSE, 0, ""),
      Chk(16, "FAULT: Output Overcurrent", TRUE, RACM600_STATUS_IOUT,
          "Output Current Fault"),
      Chk(32, "FAULT: Output Overvoltage", TRUE, RACM600_STATUS_VOUT,
          "Output Voltage Fault"),
      Chk(8, "FAULT: Input Undervoltage", TRUE, RACM600_STATUS_INPUT, "Input Fault"),
      Chk(4, "FAULT: Temperature Fault", TRUE, RACM600_STATUS_TEMPERATURE,
          "Temperature Fault"),
      Chk(2, "FAULT: Communication Fault (CML)", TRUE, RACM600_STATUS_CML,
          "Communication Fault"),
      Chk(1, "FAULT: Unknown Fault", FALSE, 0, "")>>

\* the eight `if (status & mask)` statements of readFaults, in source order
FaultChecks ==
    <<Chk(128, "FAULT: Device Busy", FALSE, 0, ""),
      Chk(64, "FAULT: Power Output Off", FALSE, 0, ""),
      Chk(32, "FAULT: Output Overvoltage", TRUE, RACM600_STATUS_VOUT,
          "Output Voltage Fault"),
      Chk(16, "FAULT: Output Overcurrent", TRUE, RACM600_STATUS_IOUT,
          "Output Current Fault"),
      Chk(8, "FAULT: Input Undervoltage", TRUE, RACM600_STATUS_INPUT, "Input Fault"),
      Chk(4, "FAULT: Temperature Fault", TRUE, RACM600_STATUS_TEMPERATURE,
          "Temperature Fault"),
      Chk(2, "FAULT: Communication Fault (CML)", TRUE, RACM600_STATUS_CML,
          "Communication Fault"),
      Chk(1, "FAULT: Unknown Fault", FALSE, 0, "")>>

Msg(mask, text) == [mask |-> mask, text |-> text]

\* mutant: bit 0x0400 reported as a warning too
WarningChecksBit10 ==
    <<Msg(32768, "WARNING: Output Voltage Issue"),
      Msg(16384, "WARNING: Output Current or Power Issue"),
      Msg(8192, "WARNING: Input Voltage or Power Issue"),
      Msg(4096, "WARNING: Manufacturer-Specific Issue"),
      Msg(2048, "WARNING: Power Good Signal Lost"),
      Msg(1024, "WARNING: Unknown Warning"),
      Msg(512, "WARNING: Fan or Airflow Issue"),
      Msg(256, "WARNING: Other Status Warning")>>

\* the seven warning statements of readFaults, in source order
WarningChecks ==
    <<Msg(32768, "WARNING: Output Voltage Issue"),
      Msg(16384, "WARNING: Output Current or Power Issue"),
      Msg(8192, "WARNING: Input Voltage or Power Issue"),
      Msg(4096, "WARNING: Manufacturer-Specific Issue"),
      Msg(2048, "WARNING: Power Good Signal Lost"),
      Msg(512, "WARNING: Fan or Airflow Issue"),
      Msg(256, "WARNING: Other Status Warning")>>

\* the bit tables of readDetailedFault, one per detail register

\* mutant: bits 4 and 5 of STATUS_VOUT mixed up
StatusVoutTableBit5 ==
    <<Msg(128, " - Output Overvoltage Fault"),
      Msg(64, " - Output Overvoltage Warning"),
      Msg(32, " - Output Undervoltage Warning"),
      Msg(8, " - Output Undervoltage Fault")>>

StatusVoutTable ==
    <<Msg(128, " - Output Overvoltage Fault"),
      Msg(64, " - Output Overvoltage Warning"),
      Msg(16, " - Output Undervoltage Warning"),
      Msg(8, " - Output Undervoltage Fault")>>

StatusIoutTable ==
    <<Msg(128, " - Output Overcurrent Fault"),
      Msg(64, " - Critical Constant Current Mode Fault"),
      Msg(32, " - Output Overcurrent Warning")>>

StatusInputTable ==
    <<Msg(128, " - Input Overvoltage Fault"),
      Msg(64, " - Input Overvoltage Warning"),
      Msg(16, " - Input Undervoltage Warning"),
      Msg(8, " - Input Undervoltage Fault")>>

\* mutant: the overtemperature warning tested twice, on bits 6 and 5
StatusTemperatureTableBit5 ==
    <<Msg(128, " - Overtemperature Fault"),
      Msg(64, " - Overtemperature Warning"),
      Msg(32, " - Overtemperature Warning")>>

StatusTemperatureTable ==
    <<Msg(128, " - Overtemperature Fault"),
      Msg(64, " - Overtemperature Warning")>>

StatusCmlTable ==
    <<Msg(128, " - Invalid Command Received"),
      Msg(64, " - Invalid Data Received"),
      Msg(32, " - Packet Error Check Failed")>>

\* the table selected by `if (faultRegister == ...)`
DetailTable(reg) ==
    CASE reg = RACM600_STATUS_VOUT -> StatusVoutTable
      [] reg = RACM600_STATUS_IOUT -> StatusIoutTable
      [] reg = RACM600_STATUS_INPUT -> StatusInputTable
      [] reg = RACM600_STATUS_TEMPERATURE -> StatusTemperatureTable
      [] reg = RACM600_STATUS_CML -> StatusCmlTable
      [] OTHER -> <<>>

\* the lines a run of `if (x & mask) Serial.println(text);` statements prints
RECURSIVE PrintSet(_, _)
PrintSet(table, x) ==
    IF table = <<>> THEN <<>>
    ELSE (IF BitAnd(x, Head(table).mask) # 0 THEN <<(<<Head(table).text>>)>> ELSE <<>>)
         \o PrintSet(Tail(table), x)

\* Serial.print("Fault Status: 0x"); Serial.println(status, HEX);
StatusLine(status) == <<"Fault Status: 0x">> \o Hex(status)

\* what readDetailedFault prints for the byte it read
DetailLines(reg, type, faultStatus) ==
    <<(<<type, " Details: 0x">> \o Hex(faultStatus))>>
    \o PrintSet(DetailTable(reg), faultStatus)

\* the warning block of readFaults
WarningLines(status) == PrintSet(WarningChecks, status)

(* ------------------------------------------------------------------ *)
(* Calls                                                               *)
(* ------------------------------------------------------------------ *)
Op(op, cmd, value) == [op |-> op, cmd |-> cmd, value |-> value]

\* operations that only write to the supply (or, for begin, only set up Wire)
WriteOps == {"begin", "enableOutput", "disableOutput", "clearFaults", "writeCommand"}

\* the public operations of class RACM600 and direct calls of its two
\* private transfer helpers
OpCalls ==
    {Op(o, 0, 0) :
        o \in {"begin", "enableOutput", "disableOutput", "clearFaults", "readFaults"}
              \cup TelemetryOps}
    \cup {Op("writeCommand", c, v) : c \in WriteCmds, v \in WriteValues}
    \cup {Op("readCommand", c, 0) : c \in ReadCmds}

\* a caller that is in no call: its locals do not exist
IdleThread ==
    [pc |-> "idle", fn |-> "none", n |-> 0, body |-> <<>>, k |-> "idle", cmd |-> 0,
     low |-> 0, high |-> 0, rc |-> 0, status |-> 0, idx |-> 0]

\* the frame of a fresh call of o, logged as operation n of the window
Start(o, n) ==
    LET f == [IdleThread EXCEPT !.pc = "wire", !.fn = o.op, !.n = n]
    IN  CASE o.op = "begin" -> [f EXCEPT !.body = beginBody, !.k = "return"]
          [] o.op = "enableOutput" ->
               [f EXCEPT !.body = enableOutputBody, !.k = "return"]
          [] o.op = "disableOutput" ->
               [f EXCEPT !.body = disableOutputBody, !.k = "return"]
          [] o.op = "clearFaults" ->
               [f EXCEPT !.body = clearFaultsBody, !.k = "return"]
          [] o.op = "writeCommand" ->
               [f EXCEPT !.body = writeCommandBody(o.cmd, o.value), !.k = "return"]
          [] o.op = "readCommand" ->
               [f EXCEPT !.body = readCommandBody(o.cmd), !.k = "avail",
                         !.cmd = o.cmd]
          [] o.op = "readFaults" ->
               [f EXCEPT !.body = readCommandBody(RACM600_STATUS_WORD),
                         !.k = "avail", !.cmd = RACM600_STATUS_WORD]
          [] OTHER ->
               [f EXCEPT !.body = readCommandBody(TelemetryCmd(o.op)),
                         !.k = "avail", !.cmd = TelemetryCmd(o.op)]

\* the log entry of a call: done and the results are filled in at its return
\* (ret: a uint16_t result; num/den: a float result as a fraction)
OpRec(o, c) ==
    [op |-> o.op, cmd |-> o.cmd, value |-> o.value, by |-> c, done |-> FALSE,
     ret |-> 0, num |-> 0, den |-> 1]

\* entries of the two bus logs
CallRec(n, f, a, v, got) == [n |-> n, f |-> f, a |-> a, v |-> v, got |-> got]
Frame(n, kind, a, data, cnt, stop) ==
    [n |-> n, kind |-> kind, a |-> a, data |-> data, cnt |-> cnt, stop |-> stop]

\* the log window keeps a run of write-only operations together, up to
\* MaxOps of them; any other call starts a new window
KeepWindow(o) ==
    /\ o.op \in WriteOps
    /\ ops # <<>>
    /\ Len(ops) < MaxOps
    /\ \A i \in 1..Len(ops) : ops[i].op \in WriteOps

InitIn(sc) ==
    /\ address \in Addrs
    /\ transmitting = FALSE
    /\ txAddress = 0
    /\ txBuf = <<>>
    /\ rxBuf = <<>>
    /\ devReg = 0
    /\ th = [c \in Callers |-> IdleThread]
    /\ ops = <<>>
    /\ calls = <<>>
    /\ bus = <<>>
    /\ serial = <<>>
    /\ scenario = sc

\* the state after construction, the supply answering with sampled values
Init == InitIn("sampled")

\* caller c enters operation o, logged in the current window (keep) or in a
\* new one
Enter(c, o, keep) ==
    LET n == IF keep THEN Len(ops) + 1 ELSE 1
    IN  /\ ops' = Append(IF keep THEN ops ELSE <<>>, OpRec(o, c))
        /\ calls' = IF keep THEN calls ELSE <<>>
        /\ bus' = IF keep THEN bus ELSE <<>>
        /\ serial' = IF keep THEN serial ELSE <<>>
        /\ th' = [th EXCEPT ![c] = Start(o, n)]
        /\ UNCHANGED <<address, scenario, wireVars>>

\* a caller enters an operation; calls are serialized: no other call is running
Call(c) ==
    /\ \A d \in Callers : th[d].pc = "idle"
    /\ \E o \in OpCalls : Enter(c, o, KeepWindow(o))

\* the caller's next Wire call, and its frame after that call
Next1(c) == Head(th[c].body)
Advance(c) ==
    [th EXCEPT ![c].body = Tail(@),
               ![c].pc = IF Tail(th[c].body) = <<>> THEN th[c].k ELSE "wire"]
AtCall(c, f) == th[c].pc = "wire" /\ th[c].body # <<>> /\ Next1(c).f = f

(* ------------------------------------------------------------------ *)
(* The Wire primitives, as the driver calls them                       *)
(* ------------------------------------------------------------------ *)
\* Wire.begin(): joins the bus as master, empties both buffers
WireBegin(c) ==
    /\ AtCall(c, "begin")
    /\ txBuf' = <<>>
    /\ rxBuf' = <<>>
    /\ calls' = Append(calls, CallRec(th[c].n, "begin", 0, 0, <<>>))
    /\ th' = Advance(c)
    /\ UNCHANGED <<address, scenario, transmitting, txAddress, devReg, ops, bus, serial>>

\* mutant: the default address used instead of the handle's
addressArgDefault == RACM600_DEFAULT_ADDR

\* the argument _address of beginTransmission and requestFrom
addressArg == address

\* Wire.beginTransmission(_address): opens a write transaction
BeginTransmission(c) ==
    /\ AtCall(c, "beginTransmission")
    /\ transmitting' = TRUE
    /\ txAddress' = addressArg
    /\ txBuf' = <<>>
    /\ calls' = Append(calls, CallRec(th[c].n, "beginTransmission", addressArg, 0, <<>>))
    /\ th' = Advance(c)
    /\ UNCHANGED <<address, scenario, rxBuf, devReg, ops, bus, serial>>

\* Wire.write(b): queues a byte in the open transaction (a write outside a
\* transaction queues nothing for the master)
Write(c) ==
    /\ AtCall(c, "write")
    /\ txBuf' = IF transmitting THEN Append(txBuf, Next1(c).v) ELSE txBuf
    /\ calls' = Append(calls, CallRec(th[c].n, "write", 0, Next1(c).v, <<>>))
    /\ th' = Advance(c)
    /\ UNCHANGED <<address, scenario, transmitting, txAddress, rxBuf, devReg, ops, bus, serial>>

\* Wire.endTransmission(sendStop): puts the queued bytes on the wire as one
\* write frame and closes the transaction; the supply latches the command
EndTransmission(c) ==
    /\ AtCall(c, "endTransmission")
    /\ bus' = Append(bus, Frame(th[c].n, "W", txAddress, txBuf, 0, Next1(c).v))
    /\ devReg' = IF txBuf # <<>> THEN Head(txBuf) ELSE devReg
    /\ txBuf' = <<>>
    /\ transmitting' = FALSE
    /\ calls' = Append(calls, CallRec(th[c].n, "endTransmission", 0, Next1(c).v, <<>>))
    /\ th' = Advance(c)
    /\ UNCHANGED <<address, scenario, txAddress, rxBuf, ops, serial>>

\* Wire.requestFrom(_address, 2): a read frame; what arrives replaces the
\* receive buffer
RequestFrom(c) ==
    /\ AtCall(c, "requestFrom")
    /\ \E r \in Answers(devReg) :
          /\ rxBuf' = r
          /\ calls' = Append(calls,
                             CallRec(th[c].n, "requestFrom", addressArg, Next1(c).v, r))
    /\ bus' = Append(bus, Frame(th[c].n, "R", addressArg, <<>>, Next1(c).v, 1))
    /\ th' = Advance(c)
    /\ UNCHANGED <<address, scenario, transmitting, txAddress, txBuf, devReg, ops, serial>>

\* Wire.read(): the next received byte, -1 (255 as uint8_t) when none is left
WireRead == IF rxBuf = <<>> THEN 255 ELSE Head(rxBuf)
WireRest == IF rxBuf = <<>> THEN <<>> ELSE Tail(rxBuf)

(* ------------------------------------------------------------------ *)
(* readCommand after the request                                       *)
(* ------------------------------------------------------------------ *)
\* mutant: a short read reported as -1
ShortReadResultMinusOne == U16(0 - 1)

\* return 0;  the value of a read that came back short
ShortReadResult == 0

\* mutant: one available byte is taken to be enough
EnoughBytesOne(n) == n >= 1

\* the test of `if (Wire.available() >= 2)`
EnoughBytes(n) == n >= 2

\* if (Wire.available() >= 2) ... else return 0;
Available(c) ==
    /\ th[c].pc = "avail"
    /\ calls' = Append(calls, CallRec(th[c].n, "available", 0, Len(rxBuf), <<>>))
    /\ th' = IF EnoughBytes(Len(rxBuf))
             THEN [th EXCEPT ![c].pc = "readLow"]
             ELSE [th EXCEPT ![c].rc = ShortReadResult, ![c].pc = "rcret"]
    /\ UNCHANGED <<address, scenario, wireVars, ops, bus, serial>>

\* uint8_t low = Wire.read();
ReadLow(c) ==
    /\ th[c].pc = "readLow"
    /\ rxBuf' = WireRest
    /\ calls' = Append(calls, CallRec(th[c].n, "read", 0, WireRead, <<>>))
    /\ th' = [th EXCEPT ![c].low = WireRead, ![c].pc = "readHigh"]
    /\ UNCHANGED <<address, scenario, transmitting, txAddress, txBuf, devReg, ops, bus, serial>>

\* uint8_t high = Wire.read(); return (high << 8) | low;
ReadHigh(c) ==
    /\ th[c].pc = "readHigh"
    /\ rxBuf' = WireRest
    /\ calls' = Append(calls, CallRec(th[c].n, "read", 0, WireRead, <<>>))
    /\ th' = [th EXCEPT ![c].high = WireRead,
                        ![c].rc = readCommandResult(th[c].low, WireRead),
                        ![c].pc = "rcret"]
    /\ UNCHANGED <<address, scenario, transmitting, txAddress, txBuf, devReg, ops, bus, serial>>

(* ------------------------------------------------------------------ *)
(* Returns                                                             *)
(* ------------------------------------------------------------------ *)
\* the call returns: its frame is gone, its result is logged
Finish(c, ret, num, den) ==
    /\ ops' = [ops EXCEPT ![th[c].n] =
                  [@ EXCEPT !.done = TRUE, !.ret = ret, !.num = num, !.den = den]]
    /\ th' = [th EXCEPT ![c] = IdleThread]

\* end of a void operation
Return(c) ==
    /\ th[c].pc = "return"
    /\ Finish(c, 0, 0, 1)
    /\ UNCHANGED <<address, scenario, wireVars, calls, bus, serial>>

\* a direct call of readCommand hands its word to the caller
ReadCommandReturn(c) ==
    /\ th[c].pc = "rcret"
    /\ th[c].fn = "readCommand"
    /\ Finish(c, th[c].rc, 0, 1)
    /\ UNCHANGED <<address, scenario, wireVars, calls, bus, serial>>

\* uint16_t raw = readCommand(...); return raw * 0.01;  or  return raw;
TelemetryReturn(c) ==
    /\ th[c].pc = "rcret"
    /\ th[c].fn \in TelemetryOps
    /\ Finish(c, 0, th[c].rc, TelemetryDivisor(th[c].fn))
    /\ UNCHANGED <<address, scenario, wireVars, calls, bus, serial>>

(* ------------------------------------------------------------------ *)
(* readFaults and readDetailedFault                                    *)
(* ------------------------------------------------------------------ *)
\* mutant: only the fault byte of the status word is tested
NoFaultsLowByte(status) == lowByte(status) = 0

\* mutant: the word of the last readCommand is returned
readFaultsResultLast(t) == t.rc

\* mutant: the fault block stops one check early
AfterCheckSkipLast(idx) == IF idx < Len(FaultChecks) - 1 THEN "rfCheck" ELSE "rfWarn"

\* if (status == 0)
NoFaults(status) == status = 0

\* return status;
readFaultsResult(t) == t.status

\* the position after fault check idx: the next check, or the warnings
AfterCheck(idx) == IF idx < Len(FaultChecks) THEN "rfCheck" ELSE "rfWarn"

\* uint16_t status = readCommand(RACM600_STATUS_WORD); the status line; the
\* early return on a zero status
ReadFaultsStatus(c) ==
    /\ th[c].pc = "rcret"
    /\ th[c].fn = "readFaults"
    /\ th[c].idx = 0
    /\ LET status == th[c].rc
           t == [th[c] EXCEPT !.status = status]
       IN  IF NoFaults(status)
           THEN /\ serial' = serial \o <<StatusLine(status), <<"No faults detected.">>>>
                /\ Finish(c, readFaultsResult(t), 0, 1)
           ELSE /\ serial' = Append(serial, StatusLine(status))
                /\ th' = [th EXCEPT ![c] = [t EXCEPT !.idx = 1, !.pc = "rfCheck"]]
                /\ ops' = ops
    /\ UNCHANGED <<address, scenario, wireVars, calls, bus>>

\* one `if (status & mask)` of the fault block: the category line and, for
\* the five categories with a detail register, the call of readDetailedFault,
\* which starts with readCommand(faultRegister)
ReadFaultsCheck(c) ==
    /\ th[c].pc = "rfCheck"
    /\ LET chk == FaultChecks[th[c].idx]
           hit == BitAnd(th[c].status, chk.mask) # 0
       IN  /\ serial' = IF hit THEN Append(serial, <<chk.text>>) ELSE serial
           /\ th' = IF hit /\ chk.detail
                    THEN [th EXCEPT ![c].pc = "wire",
                                    ![c].body = readCommandBody(chk.reg),
                                    ![c].k = "avail",
                                    ![c].cmd = chk.reg]
                    ELSE [th EXCEPT ![c].idx = @ + 1,
                                    ![c].pc = AfterCheck(th[c].idx)]
    /\ UNCHANGED <<address, scenario, wireVars, ops, calls, bus>>

\* uint8_t faultStatus = readCommand(faultRegister); the details line and the
\* lines of the register's bit table; back in readFaults at the next check
ReadDetailedFault(c) ==
    /\ th[c].pc = "rcret"
    /\ th[c].fn = "readFaults"
    /\ th[c].idx > 0
    /\ LET chk == FaultChecks[th[c].idx]
           faultStatus == U8(th[c].rc)
       IN  serial' = serial \o DetailLines(th[c].cmd, chk.type, faultStatus)
    /\ th' = [th EXCEPT ![c].idx = @ + 1, ![c].pc = AfterCheck(th[c].idx)]
    /\ UNCHANGED <<address, scenario, wireVars, ops, calls, bus>>

\* the warning block and `return status;`
ReadFaultsWarnings(c) ==
    /\ th[c].pc = "rfWarn"
    /\ serial' = serial \o WarningLines(th[c].status)
    /\ Finish(c, readFaultsResult(th[c]), 0, 1)
    /\ UNCHANGED <<address, scenario, wireVars, calls, bus>>

(* ------------------------------------------------------------------ *)
(* Specification: serialized use of the handle                         *)
(* ------------------------------------------------------------------ *)
Next ==
    \E c \in Callers :
        \/ Call(c)
        \/ WireBegin(c)
        \/ BeginTransmission(c)
        \/ Write(c)
        \/ EndTransmission(c)
        \/ RequestFrom(c)
        \/ Available(c)
        \/ ReadLow(c)
        \/ ReadHigh(c)
        \/ Return(c)
        \/ ReadCommandReturn(c)
        \/ TelemetryReturn(c)
        \/ ReadFaultsStatus(c)
        \/ ReadFaultsCheck(c)
        \/ ReadDetailedFault(c)
        \/ ReadFaultsWarnings(c)

Spec == Init /\ [][Next]_vars

(* ------------------------------------------------------------------ *)
(* Reading the log window                                              *)
(* ------------------------------------------------------------------ *)
Done(i) == i \in 1..Len(ops) /\ ops[i].done
AllIdle == \A c \in Callers : th[c].pc = "idle"

CallsOf(i) == SelectSeq(calls, LAMBDA e : e.n = i)
BusOf(i) == SelectSeq(bus, LAMBDA e : e.n = i)

TransferCalls == {"beginTransmission", "write", "endTransmission", "requestFrom"}
Transfers(i) == SelectSeq(calls, LAMBDA e : e.n = i /\ e.f \in TransferCalls)
Requests(i) == SelectSeq(calls, LAMBDA e : e.n = i /\ e.f = "requestFrom")
Reads(i) == SelectSeq(calls, LAMBDA e : e.n = i /\ e.f = "read")
Availables(i) == SelectSeq(calls, LAMBDA e : e.n = i /\ e.f = "available")

\* the word two delivered bytes stand for, low byte first
WireWord(got) == got[1] + 256 * got[2]

Count(seq, x) == Cardinality({j \in 1..Len(seq) : seq[j] = x})

(* ------------------------------------------------------------------ *)
(* C1..C5: the register codec and output control                      *)
(* ------------------------------------------------------------------ *)

\* C1: whenever the transport delivered two bytes (low first, then high) to
\* the request of a readCommand, for any command code, the word readCommand
\* returns is low + 256 * high, an unsigned 16-bit value: in the frame of
\* every readCommand that has just returned, and as the logged result of a
\* direct call.
C1_LittleEndian ==
    /\ \A c \in Callers :
          (th[c].pc = "rcret" /\ Len(Requests(th[c].n)) > 0) =>
             LET rq == Requests(th[c].n)
                 got == rq[Len(rq)].got
             IN  Len(got) = 2 =>
                    /\ th[c].rc = WireWord(got)
                    /\ th[c].rc \in 0..65535
    /\ \A i \in 1..Len(ops) :
          (Done(i) /\ ops[i].op = "readCommand" /\ Len(Requests(i)[1].got) = 2) =>
             ops[i].ret = WireWord(Requests(i)[1].got)

\* a direct readCommand returned 0x8001 after the bytes 0x01, 0x80 arrived
C1_Witness ==
    /\ Done(1)
    /\ ops[1].op = "readCommand"
    /\ Requests(1)[1].got = <<1, 128>>
    /\ ops[1].ret = 32769

\* C2: when fewer than two bytes are available after the request (none or
\* one), readCommand returns 0, reads no byte from Wire (the delivered byte
\* stays in the receive buffer), and the logged result of a direct call is
\* field for field the one of a call that read the bytes 0x00, 0x00.
C2_ZeroResult(i) ==
    [op |-> "readCommand", cmd |-> ops[i].cmd, value |-> 0, by |-> ops[i].by,
     done |-> TRUE, ret |-> 0, num |-> 0, den |-> 1]

C2_ShortRead ==
    /\ \A c \in Callers :
          (th[c].pc = "rcret" /\ Len(Requests(th[c].n)) > 0) =>
             LET rq == Requests(th[c].n)
                 got == rq[Len(rq)].got
             IN  Len(got) < 2 => (th[c].rc = 0 /\ rxBuf = got)
    /\ \A i \in 1..Len(ops) :
          (Done(i) /\ ops[i].op = "readCommand") =>
             LET got == Requests(i)[1].got
             IN  /\ Len(got) < 2 =>
                      (ops[i] = C2_ZeroResult(i) /\ Reads(i) = <<>> /\ rxBuf = got)
                 /\ got = <<0, 0>> => ops[i] = C2_ZeroResult(i)

\* a direct readCommand returned after a one-byte answer
C2_Witness ==
    /\ Done(1)
    /\ ops[1].op = "readCommand"
    /\ Requests(1)[1].got = <<100>>
    /\ ops[1].ret = 0
    /\ rxBuf = <<100>>

\* C3: a completed writeCommand(cmd, value) made exactly the Wire calls
\* beginTransmission(address), write(cmd), write(value mod 256),
\* write(value div 256), endTransmission(stop), which put exactly one write
\* frame of those three bytes on the wire, addressed to the handle's
\* address, and no read frame.
C3_WriteWord ==
    \A i \in 1..Len(ops) :
       (Done(i) /\ ops[i].op = "writeCommand") =>
          LET cmd == ops[i].cmd
              lo == ops[i].value % 256
              hi == ops[i].value \div 256
          IN  /\ CallsOf(i) =
                    <<CallRec(i, "beginTransmission", address, 0, <<>>),
                      CallRec(i, "write", 0, cmd, <<>>),
                      CallRec(i, "write", 0, lo, <<>>),
                      CallRec(i, "write", 0, hi, <<>>),
                      CallRec(i, "endTransmission", 0, 1, <<>>)>>
              /\ BusOf(i) = <<Frame(i, "W", address, <<cmd, lo, hi>>, 0, 1)>>

\* writeCommand(0x40, 0x1234) completed with the frame 0x40, 0x34, 0x12
C3_Witness ==
    \E i \in 1..Len(ops) :
       /\ Done(i)
       /\ ops[i].op = "writeCommand"
       /\ ops[i].value = 4660
       /\ BusOf(i) = <<Frame(i, "W", address, <<64, 52, 18>>, 0, 1)>>

\* C4: every readCommand makes one bus transaction and never retries.  In
\* every state the transfer calls of a reading operation are repetitions of
\* beginTransmission(address), write(cmd), endTransmission(no stop),
\* requestFrom(address, 2), in that order; once the operation is complete
\* there are exactly as many repetitions as readCommand was entered (one
\* available() test each), and exactly one, with the operation's own command
\* byte, for a direct readCommand, whether the read succeeded or came back
\* short.
C4_Pattern(e, j) ==
    CASE j % 4 = 1 -> e.f = "beginTransmission" /\ e.a = address
      [] j % 4 = 2 -> e.f = "write"
      [] j % 4 = 3 -> e.f = "endTransmission" /\ e.v = 0
      [] OTHER -> e.f = "requestFrom" /\ e.a = address /\ e.v = 2

C4_OneTransaction ==
    \A i \in 1..Len(ops) :
       ops[i].op \notin WriteOps =>
          LET t == Transfers(i)
          IN  /\ \A j \in 1..Len(t) : C4_Pattern(t[j], j)
              /\ Done(i) => Len(t) = 4 * Len(Availables(i))
              /\ (Done(i) /\ ops[i].op = "readCommand") =>
                    (Len(t) = 4 /\ t[2].v = ops[i].cmd)

\* a direct readCommand completed after a short read
C4_Witness ==
    /\ Done(1)
    /\ ops[1].op = "readCommand"
    /\ Len(Transfers(1)) = 4
    /\ Requests(1)[1].got = <<>>

\* C5: a completed enableOutput put exactly one write frame 0x01, 0x80 on the
\* wire and a completed disableOutput exactly one write frame 0x01, 0x00,
\* each to the handle's address; when disableOutput is called right after
\* enableOutput, the wire carries those two frames, in that order, and
\* nothing else (no read request) from the start of the first call to the
\* end of the second.
C5_EnableDisable ==
    /\ \A i \in 1..Len(ops) :
          Done(i) =>
             /\ ops[i].op = "enableOutput" =>
                   BusOf(i) = <<Frame(i, "W", address, <<1, 128>>, 0, 1)>>
             /\ ops[i].op = "disableOutput" =>
                   BusOf(i) = <<Frame(i, "W", address, <<1, 0>>, 0, 1)>>
    /\ \A i \in 1..(Len(ops) - 1) :
          (ops[i].op = "enableOutput" /\ ops[i + 1].op = "disableOutput"
           /\ Done(i + 1)) =>
             SelectSeq(bus, LAMBDA e : e.n >= i /\ e.n <= i + 1) =
                <<Frame(i, "W", address, <<1, 128>>, 0, 1),
                  Frame(i + 1, "W", address, <<1, 0>>, 0, 1)>>

\* disableOutput completed right after enableOutput
C5_Witness ==
    /\ Len(ops) >= 2
    /\ ops[1].op = "enableOutput"
    /\ ops[2].op = "disableOutput"
    /\ Done(2)
    /\ Len(bus) = 2

(* ------------------------------------------------------------------ *)
(* C6..C10: clearFaults and the fault decoder                         *)
(* ------------------------------------------------------------------ *)

\* C6: a completed clearFaults made exactly the Wire calls
\* beginTransmission(address), write(0x03), endTransmission(stop): one write
\* frame whose only byte is the command code, no payload byte, no read
\* request; and no step of a clearFaults call changes the handle's address,
\* the only state the driver keeps.
C6_Frames ==
    \A i \in 1..Len(ops) :
       (Done(i) /\ ops[i].op = "clearFaults") =>
          /\ CallsOf(i) =
                <<CallRec(i, "beginTransmission", address, 0, <<>>),
                  CallRec(i, "write", 0, 3, <<>>),
                  CallRec(i, "endTransmission", 0, 1, <<>>)>>
          /\ BusOf(i) = <<Frame(i, "W", address, <<3>>, 0, 1)>>

C6_ClearFaults ==
    /\ []C6_Frames
    /\ [][(\E c \in Callers : th[c].fn = "clearFaults") => address' = address]_vars

\* a clearFaults call completed
C6_Witness ==
    \E i \in 1..Len(ops) :
       /\ Done(i)
       /\ ops[i].op = "clearFaults"
       /\ Len(BusOf(i)) = 1

\* the value the summary read of readFaults call i obtained: the word of the
\* two delivered bytes, 0 when the read came back short
FirstStatus(i) ==
    LET got == Requests(i)[1].got
    IN  IF Len(got) = 2 THEN WireWord(got) ELSE 0

DoneReadFaults(i) == Done(i) /\ ops[i].op = "readFaults"

\* bit k of x, by arithmetic
Bit(x, k) == (x \div (2 ^ k)) % 2

\* the command bytes of the write frames of call i
CmdFrames(i) == SelectSeq(bus, LAMBDA e : e.n = i /\ e.kind = "W")
ReadFrames(i) == SelectSeq(bus, LAMBDA e : e.n = i /\ e.kind = "R")
CmdCount(i, reg) ==
    Cardinality({j \in 1..Len(CmdFrames(i)) : CmdFrames(i)[j].data = <<reg>>})

\* C7: a completed readFaults whose summary read gave 0x0000 printed the
\* status line and "No faults detected." and nothing else, made no read
\* besides the summary read, and returned 0; a completed readFaults whose
\* summary read gave any other value did not print "No faults detected.".
C7_NoFaults ==
    \A i \in 1..Len(ops) :
       DoneReadFaults(i) =>
          /\ FirstStatus(i) = 0 =>
                /\ serial = <<(<<"Fault Status: 0x", "0">>), (<<"No faults detected.">>)>>
                /\ Len(ReadFrames(i)) = 1
                /\ Len(CmdFrames(i)) = 1
                /\ ops[i].ret = 0
          /\ FirstStatus(i) # 0 => Count(serial, <<"No faults detected.">>) = 0

\* readFaults completed after reading the status word 0x0000
C7_Witness ==
    /\ DoneReadFaults(1)
    /\ Requests(1)[1].got = <<0, 0>>
    /\ Count(serial, <<"No faults detected.">>) = 1

\* C8: in a readFaults call a detail register is read at most once, and only
\* when its category bit of the status word is set; in a completed call each
\* of STATUS_VOUT (0x0020), STATUS_IOUT (0x0010), STATUS_INPUT (0x0008),
\* STATUS_TEMPERATURE (0x0004), STATUS_CML (0x0002) was read exactly once if
\* its bit is set and not at all otherwise, the summary register was read
\* once, and nothing else was read, so the number of secondary reads is the
\* number of set bits of status & 0x003E; status 0x0020 gives exactly the
\* summary read followed by one read of STATUS_VOUT.
C8_DetailBit(reg) ==
    CASE reg = RACM600_STATUS_VOUT -> 5
      [] reg = RACM600_STATUS_IOUT -> 4
      [] reg = RACM600_STATUS_INPUT -> 3
      [] reg = RACM600_STATUS_TEMPERATURE -> 2
      [] reg = RACM600_STATUS_CML -> 1

C8_SecondaryReads ==
    \A i \in 1..Len(ops) :
       (ops[i].op = "readFaults" /\ Len(Requests(i)) > 0) =>
          LET st == FirstStatus(i)
              n == Bit(st, 5) + Bit(st, 4) + Bit(st, 3) + Bit(st, 2) + Bit(st, 1)
          IN  /\ \A reg \in {122, 123, 124, 125, 126} :
                    /\ CmdCount(i, reg) <= Bit(st, C8_DetailBit(reg))
                    /\ Done(i) => CmdCount(i, reg) = Bit(st, C8_DetailBit(reg))
              /\ CmdCount(i, 121) = 1
              /\ Len(ReadFrames(i)) <= 1 + n
              /\ Done(i) =>
                    /\ Len(CmdFrames(i)) = 1 + n
                    /\ Len(ReadFrames(i)) = 1 + n
                    /\ n <= 5
              /\ (Done(i) /\ st = 32) =>
                    /\ CmdFrames(i)[1].data = <<121>>
                    /\ CmdFrames(i)[2].data = <<122>>
                    /\ Len(ReadFrames(i)) = 2

\* readFaults completed for status 0x0020 with one read of STATUS_VOUT
C8_Witness ==
    /\ DoneReadFaults(1)
    /\ FirstStatus(1) = 32
    /\ CmdCount(1, 122) = 1
    /\ Len(ReadFrames(1)) = 2

\* C9: a completed readFaults returned the value its summary read obtained,
\* whatever the status bits and whatever the detail reads delivered.
C9_ReturnsStatus ==
    \A i \in 1..Len(ops) : DoneReadFaults(i) => ops[i].ret = FirstStatus(i)

\* readFaults returned 0x0021 although its detail read delivered 0x88, 0xFF
C9_Witness ==
    /\ DoneReadFaults(1)
    /\ Len(Requests(1)) = 2
    /\ Requests(1)[1].got = <<33, 0>>
    /\ Requests(1)[2].got = <<136, 255>>
    /\ ops[1].ret = 33

\* the category description of each assigned status bit
C10_Descriptions ==
    {Msg(128, "FAULT: Device Busy"), Msg(64, "FAULT: Power Output Off"),
     Msg(32, "FAULT: Output Overvoltage"), Msg(16, "FAULT: Output Overcurrent"),
     Msg(8, "FAULT: Input Undervoltage"), Msg(4, "FAULT: Temperature Fault"),
     Msg(2, "FAULT: Communication Fault (CML)"), Msg(1, "FAULT: Unknown Fault"),
     Msg(32768, "WARNING: Output Voltage Issue"),
     Msg(16384, "WARNING: Output Current or Power Issue"),
     Msg(8192, "WARNING: Input Voltage or Power Issue"),
     Msg(4096, "WARNING: Manufacturer-Specific Issue"),
     Msg(2048, "WARNING: Power Good Signal Lost"),
     Msg(512, "WARNING: Fan or Airflow Issue"),
     Msg(256, "WARNING: Other Status Warning")}

\* C10: a completed readFaults with a non-zero status printed the category
\* description of every assigned bit exactly once if that bit is set in the
\* status and not at all if it is clear, independently of the other bits;
\* for status 0x0021 it read STATUS_VOUT once and printed both "FAULT: Output
\* Overvoltage" and "FAULT: Unknown Fault".
C10_IndependentBits ==
    \A i \in 1..Len(ops) :
       (DoneReadFaults(i) /\ FirstStatus(i) # 0) =>
          /\ \A d \in C10_Descriptions :
                Count(serial, <<d.text>>) = (FirstStatus(i) \div d.mask) % 2
          /\ FirstStatus(i) = 33 =>
                /\ CmdCount(i, 122) = 1
                /\ Count(serial, <<"FAULT: Output Overvoltage">>) = 1
                /\ Count(serial, <<"FAULT: Unknown Fault">>) = 1

\* readFaults completed for status 0x0021
C10_Witness ==
    /\ DoneReadFaults(1)
    /\ FirstStatus(1) = 33
    /\ CmdCount(1, 122) = 1
    /\ Count(serial, <<"FAULT: Unknown Fault">>) = 1

(* ------------------------------------------------------------------ *)
(* Specification: readFaults decoding one detail register, all bytes   *)
(* ------------------------------------------------------------------ *)
InitDetail == InitIn("detail")

CallReadFaults(c) ==
    /\ \A d \in Callers : th[d].pc = "idle"
    /\ Enter(c, Op("readFaults", 0, 0), FALSE)

NextDetail ==
    \E c \in Callers :
        \/ CallReadFaults(c)
        \/ BeginTransmission(c)
        \/ Write(c)
        \/ EndTransmission(c)
        \/ RequestFrom(c)
        \/ Available(c)
        \/ ReadLow(c)
        \/ ReadHigh(c)
        \/ ReadFaultsStatus(c)
        \/ ReadFaultsCheck(c)
        \/ ReadDetailedFault(c)
        \/ ReadFaultsWarnings(c)

SpecDetail == InitDetail /\ [][NextDetail]_vars

\* a completed readFaults of that scenario: the register it consulted, what
\* the supply delivered for it, and the detail lines it printed (everything
\* after the status line, the category line and the details line)
DetailRun ==
    /\ scenario = "detail"
    /\ DoneReadFaults(1)
    /\ Len(Requests(1)) = 2
    /\ Len(serial) >= 3
    /\ serial[3][2] = " Details: 0x"
DetailReg == CmdFrames(1)[2].data[1]
DetailGot == Requests(1)[2].got
DetailPrinted == SubSeq(serial, 4, Len(serial))

(* ------------------------------------------------------------------ *)
(* C11..C20                                                            *)
(* ------------------------------------------------------------------ *)

\* C11 as claimed: every one of the five detail registers has exactly four
\* bit positions that produce a description, so a detail byte with all
\* eight bits set (0xFF) yields exactly four detail lines, whichever
\* register it was read from.
C11_FourPerCategory ==
    (DetailRun /\ Len(DetailGot) = 2 /\ DetailGot[1] = 255) =>
       Len(DetailPrinted) = 4

\* the bit positions of each detail register that have a description
C11_Positions(reg) ==
    CASE reg = 122 -> {7, 6, 4, 3}
      [] reg = 123 -> {7, 6, 5}
      [] reg = 124 -> {7, 6, 4, 3}
      [] reg = 125 -> {7, 6}
      [] reg = 126 -> {7, 6, 5}

\* C11 (amended): for every detail byte value, the number of detail lines
\* readDetailedFault prints is the number of set bits among the positions
\* of that register's table: four positions (7, 6, 4, 3) for STATUS_VOUT and
\* STATUS_INPUT, three (7, 6, 5) for STATUS_IOUT and STATUS_CML, two (7, 6)
\* for STATUS_TEMPERATURE.
C11_BitTables ==
    (DetailRun /\ Len(DetailGot) = 2) =>
       /\ DetailReg \in {122, 123, 124, 125, 126}
       /\ Len(DetailPrinted) =
             Cardinality({k \in C11_Positions(DetailReg) : Bit(DetailGot[1], k) = 1})

\* STATUS_TEMPERATURE read as 0xFF gave two detail lines
C11_Witness ==
    /\ DetailRun
    /\ DetailReg = 125
    /\ DetailGot = <<255, 0>>
    /\ Len(DetailPrinted) = 2

\* C12: for every byte value read from STATUS_VOUT, readDetailedFault
\* prints " - Output Overvoltage Fault" exactly when bit 7 is set,
\* " - Output Overvoltage Warning" exactly when bit 6 is set,
\* " - Output Undervoltage Warning" exactly when bit 4 is set,
\* " - Output Undervoltage Fault" exactly when bit 3 is set, each at most once,
\* and no other detail line, so bits 5, 2, 1, 0 print nothing; the value
\* 0x88 prints the overvoltage fault and the undervoltage fault lines only.
C12_VoutTable ==
    (DetailRun /\ DetailReg = 122 /\ Len(DetailGot) = 2) =>
       LET b == DetailGot[1]
           p == DetailPrinted
       IN  /\ Count(p, <<" - Output Overvoltage Fault">>) = Bit(b, 7)
           /\ Count(p, <<" - Output Overvoltage Warning">>) = Bit(b, 6)
           /\ Count(p, <<" - Output Undervoltage Warning">>) = Bit(b, 4)
           /\ Count(p, <<" - Output Undervoltage Fault">>) = Bit(b, 3)
           /\ Len(p) = Bit(b, 7) + Bit(b, 6) + Bit(b, 4) + Bit(b, 3)
           /\ b = 136 =>
                 p = <<(<<" - Output Overvoltage Fault">>),
                       (<<" - Output Undervoltage Fault">>)>>

\* STATUS_VOUT read as 0x88
C12_Witness ==
    /\ DetailRun
    /\ DetailReg = 122
    /\ DetailGot = <<136, 0>>
    /\ Len(DetailPrinted) = 2

\* the detail byte a secondary read stands for when a failed read counts as
\* a register that holds 0x00
C13_Byte(got) == IF Len(got) = 2 THEN got[1] ELSE 0

\* what readFaults prints after the status line, as a function of the status
\* word and of the detail bytes of its secondary reads (reqs, in order)
RECURSIVE C13_Lines(_, _, _)
C13_Lines(checks, st, reqs) ==
    IF checks = <<>> THEN WarningLines(st)
    ELSE LET chk == Head(checks)
         IN  IF BitAnd(st, chk.mask) = 0 THEN C13_Lines(Tail(checks), st, reqs)
             ELSE IF chk.detail
             THEN <<(<<chk.text>>)>>
                  \o DetailLines(chk.reg, chk.type, C13_Byte(Head(reqs).got))
                  \o C13_Lines(Tail(checks), st, Tail(reqs))
             ELSE <<(<<chk.text>>)>> \o C13_Lines(Tail(checks), st, reqs)

C13_Type(reg) ==
    CASE reg = 122 -> "Output Voltage Fault"
      [] reg = 123 -> "Output Current Fault"
      [] reg = 124 -> "Input Fault"
      [] reg = 125 -> "Temperature Fault"
      [] reg = 126 -> "Communication Fault"

\* C13: everything a completed readFaults printed and the value it returned
\* are determined by the status word and by the detail bytes, a secondary
\* read that came back with fewer than two bytes counting as the byte 0x00:
\* such a read prints the details line with value 0 and no detail fault or
\* warning line, exactly as a register read as 0x00 does, and the lines of
\* the remaining status bits follow as usual.
C13_FailedReadIsZero ==
    \A i \in 1..Len(ops) :
       (DoneReadFaults(i) /\ FirstStatus(i) # 0) =>
          LET st == FirstStatus(i)
              rq == Requests(i)
          IN  /\ serial = <<StatusLine(st)>> \o C13_Lines(FaultChecks, st, Tail(rq))
              /\ ops[i].ret = st
              /\ \A k \in 2..Len(rq) :
                    Len(rq[k].got) < 2 =>
                       Count(serial,
                             <<C13_Type(CmdFrames(i)[k].data[1]), " Details: 0x", "0">>) = 1

\* readFaults for status 0x003E completed although its first secondary read
\* failed: the later categories were read and reported
C13_Witness ==
    /\ DoneReadFaults(1)
    /\ FirstStatus(1) = 62
    /\ Len(Requests(1)) = 6
    /\ Requests(1)[2].got = <<>>
    /\ Requests(1)[3].got = <<255, 1>>
    /\ Count(serial, <<"Output Voltage Fault", " Details: 0x", "0">>) = 1
    /\ Count(serial, <<"FAULT: Communication Fault (CML)">>) = 1

\* the command code and the scale divisor of each telemetry operation
C14_Cmd(op) ==
    CASE op = "readVoltage" -> 139
      [] op = "readCurrent" -> 140
      [] op = "readAmbientTemperature" -> 141
      [] op = "readACINPUTTemperature" -> 142
      [] op = "readDCOUTPUTTemperature" -> 143

C14_Den(op) ==
    CASE op = "readVoltage" -> 100
      [] op = "readCurrent" -> 100
      [] OTHER -> 1

\* C14: a completed telemetry operation made exactly one word read, of its
\* own command code (0x8B, 0x8C, 0x8D, 0x8E, 0x8F), and returned the raw
\* unsigned word over its divisor: raw / 100 for readVoltage and readCurrent,
\* raw itself for the three temperatures, for every raw value (0, 100 and
\* 65535 among them); a short read is the raw value 0 and returns 0.
C14_Telemetry ==
    \A i \in 1..Len(ops) :
       (Done(i) /\ ops[i].op \in TelemetryOps) =>
          LET t == Transfers(i)
              got == Requests(i)[1].got
              raw == IF Len(got) = 2 THEN WireWord(got) ELSE 0
          IN  /\ Len(t) = 4
              /\ t[2].f = "write"
              /\ t[2].v = C14_Cmd(ops[i].op)
              /\ t[4].f = "requestFrom"
              /\ t[4].v = 2
              /\ Len(Requests(i)) = 1
              /\ ops[i].num = raw
              /\ ops[i].den = C14_Den(ops[i].op)

\* readVoltage read the raw word 100 and returned 100 / 100
C14_Witness ==
    /\ Done(1)
    /\ ops[1].op = "readVoltage"
    /\ Requests(1)[1].got = <<100, 0>>
    /\ ops[1].num = 100
    /\ ops[1].den = 100

\* C15: the handle's address never changes after construction; every
\* beginTransmission and every requestFrom of every operation, and so every
\* frame on the wire, targets that address; and between operations the
\* driver holds nothing else: a caller that has returned has no locals left
\* and no write transaction is open.
C15_Targets ==
    /\ \A j \in 1..Len(calls) :
          calls[j].f \in {"beginTransmission", "requestFrom"} => calls[j].a = address
    /\ \A j \in 1..Len(bus) : bus[j].a = address
    /\ \A c \in Callers : th[c].pc = "idle" => th[c] = IdleThread
    /\ AllIdle => (transmitting = FALSE /\ txBuf = <<>>)

C15_AddressFixed ==
    /\ []C15_Targets
    /\ [][address' = address]_vars

\* a handle constructed with address 0x50 completed a readFaults with five
\* secondary reads, all to 0x50
C15_Witness ==
    /\ address = 80
    /\ DoneReadFaults(1)
    /\ Len(bus) = 12
    /\ \A j \in 1..Len(bus) : bus[j].a = 80

(* ------------------------------------------------------------------ *)
(* Specification: two callers on one handle, with ("exclusive") and    *)
(* without ("shared") external serialization                           *)
(* ------------------------------------------------------------------ *)
InitShared == InitIn("shared") \/ InitIn("exclusive")

\* the operations the two callers use
SharedCalls ==
    {Op("enableOutput", 0, 0), Op("disableOutput", 0, 0),
     Op("readCommand", RACM600_READ_VOUT, 0)}

\* A caller enters an operation.  With external serialization no other call
\* is running.  Without it the call may start while the other caller is in
\* its own call: both are then logged in one window, one operation each.
CallShared(c) ==
    /\ th[c].pc = "idle"
    /\ scenario = "exclusive" => AllIdle
    /\ ~AllIdle => \A i \in 1..Len(ops) : ops[i].by # c
    /\ \E o \in SharedCalls : Enter(c, o, ~AllIdle)

NextShared ==
    \E c \in Callers :
        \/ CallShared(c)
        \/ BeginTransmission(c)
        \/ Write(c)
        \/ EndTransmission(c)
        \/ RequestFrom(c)
        \/ Available(c)
        \/ ReadLow(c)
        \/ ReadHigh(c)
        \/ Return(c)
        \/ ReadCommandReturn(c)

SpecShared == InitShared /\ [][NextShared]_vars

\* the one write frame each of these operations puts on the wire when it
\* runs alone
C16_OwnFrame(i) ==
    CASE ops[i].op = "enableOutput" -> Frame(i, "W", address, <<1, 128>>, 0, 1)
      [] ops[i].op = "disableOutput" -> Frame(i, "W", address, <<1, 0>>, 0, 1)
      [] ops[i].op = "readCommand" -> Frame(i, "W", address, <<ops[i].cmd>>, 0, 0)

\* the wire carries only frames that an operation emits when run alone, and
\* every completed readCommand returned the word of its own register
C16_Framed ==
    /\ \A j \in 1..Len(bus) :
          bus[j].kind = "W" => bus[j] = C16_OwnFrame(bus[j].n)
    /\ \A i \in 1..Len(ops) :
          Done(i) =>
             /\ Len(CmdFrames(i)) = 1
             /\ ops[i].op = "readCommand" =>
                   /\ Len(Requests(i)) = 1
                   /\ Requests(i)[1].got[1] = ops[i].cmd
                   /\ ops[i].ret = IF Len(Requests(i)[1].got) = 2
                                   THEN ops[i].cmd ELSE 0
                   /\ \A j \in 1..Len(Reads(i)) : Reads(i)[j].v = Requests(i)[1].got[j]

\* C16: when the operations on the shared handle are serialized, the wire
\* carries exactly the frames each operation emits when run alone and every
\* read returns the bytes of its own request.
C16_SerializedIsFramed == scenario = "exclusive" => C16_Framed

\* without serialization: both callers have returned and the wire carried a
\* write frame that neither operation emits alone
C16_Witness ==
    /\ scenario = "shared"
    /\ AllIdle
    /\ Len(ops) = 2
    /\ \E j \in 1..Len(bus) :
          /\ bus[j].kind = "W"
          /\ \A i \in 1..Len(ops) : bus[j] # C16_OwnFrame(i)

(* ------------------------------------------------------------------ *)
(* Order of events within readFaults (specification Spec)              *)
(* ------------------------------------------------------------------ *)
\* the fifteen descriptions in the order required: faults from bit 0x0080
\* down to 0x0001, then warnings from bit 0x8000 down to 0x0100
C17_Descriptions ==
    <<"FAULT: Device Busy", "FAULT: Power Output Off", "FAULT: Output Overvoltage",
      "FAULT: Output Overcurrent", "FAULT: Input Undervoltage",
      "FAULT: Temperature Fault", "FAULT: Communication Fault (CML)",
      "FAULT: Unknown Fault",
      "WARNING: Output Voltage Issue", "WARNING: Output Current or Power Issue",
      "WARNING: Input Voltage or Power Issue", "WARNING: Manufacturer-Specific Issue",
      "WARNING: Power Good Signal Lost", "WARNING: Fan or Airflow Issue",
      "WARNING: Other Status Warning">>

\* the place of a printed line in that order; 0 for a line that is no
\* description
C17_Pos(line) ==
    IF Len(line) = 1 /\ \E p \in 1..Len(C17_Descriptions) : C17_Descriptions[p] = line[1]
    THEN CHOOSE p \in 1..Len(C17_Descriptions) : C17_Descriptions[p] = line[1]
    ELSE 0

\* the detail register of the category at a place of the order; 0 for none
C17_Reg(p) == IF p \in 3..7 THEN 119 + p ELSE 0

\* how many descriptions of categories with a detail register are among the
\* first j printed lines
C17_DetailsUpTo(j) ==
    Cardinality({l \in 1..j : C17_Reg(C17_Pos(serial[l])) # 0})

\* the ordering facts at the description printed as line j of readFaults
\* call i
C17_At(i, j) ==
    LET p == C17_Pos(serial[j])
        r == C17_Reg(p)
        m == C17_DetailsUpTo(j)
        last == j = Len(serial)
    IN  /\ \A l \in 1..(j - 1) : C17_Pos(serial[l]) < p
        /\ r = 0 /\ ~last => C17_Pos(serial[j + 1]) # 0
        /\ r # 0 =>
              /\ last => Len(CmdFrames(i)) <= m + 1
              /\ Len(CmdFrames(i)) >= m + 1 => CmdFrames(i)[m + 1].data = <<r>>
              /\ ~last =>
                    /\ Len(Requests(i)) >= m + 1
                    /\ Len(serial[j + 1]) >= 3
                    /\ serial[j + 1][1] = C13_Type(r)
                    /\ serial[j + 1][2] = " Details: 0x"
                    /\ \A l \in (j + 2)..Len(serial) :
                          (\A q \in (j + 1)..l : C17_Pos(serial[q]) = 0) =>
                             \E t \in 1..Len(DetailTable(r)) :
                                serial[l] = <<DetailTable(r)[t].text>>
        /\ p > 8 =>
              /\ Done(i)
              /\ Len(Requests(i)) = m + 1
              /\ Len(CmdFrames(i)) = m + 1
              /\ \A l \in j..Len(serial) : C17_Pos(serial[l]) >= p

\* C17: in every state of a readFaults call nothing is printed before the
\* Status Word read has completed and the status line comes first; the
\* descriptions appear in the order 0x0080 .. 0x0001 then 0x8000 .. 0x0100;
\* the secondary read of a category is issued only after its description
\* and is complete, with its details line next in the output, before any
\* later description; the secondary reads go to STATUS_VOUT, IOUT, INPUT,
\* TEMPERATURE, CML in this order; the warnings come after every secondary
\* read and nothing but warnings follows them.
C17_Ordered ==
    /\ serial # <<>> => (ops # <<>> /\ ops[1].op = "readFaults")
    /\ \A i \in 1..Len(ops) :
          ops[i].op = "readFaults" =>
             /\ Len(CmdFrames(i)) >= 1 => CmdFrames(i)[1].data = <<121>>
             /\ \A k \in 2..Len(CmdFrames(i)) :
                   /\ CmdFrames(i)[k].data[1] \in 122..126
                   /\ k > 2 => CmdFrames(i)[k - 1].data[1] < CmdFrames(i)[k].data[1]
             /\ Len(CmdFrames(i)) <= 1 + C17_DetailsUpTo(Len(serial))
             /\ serial # <<>> =>
                   /\ Len(Requests(i)) >= 1
                   /\ serial[1][1] = "Fault Status: 0x"
                   /\ C17_Pos(serial[1]) = 0
                   /\ Len(serial) >= 2 => C17_Pos(serial[2]) # 0 \/ serial[2] = <<"No faults detected.">>
             /\ \A j \in 1..Len(serial) : C17_Pos(serial[j]) # 0 => C17_At(i, j)

\* readFaults for status 0xFFFF has returned: all fifteen descriptions in
\* order, with the five secondary reads between them
C17_Witness ==
    /\ DoneReadFaults(1)
    /\ FirstStatus(1) = 65535
    /\ Len(CmdFrames(1)) = 6
    /\ Cardinality({j \in 1..Len(serial) : C17_Pos(serial[j]) # 0}) = 15
    /\ serial[Len(serial)] = <<"WARNING: Other Status Warning">>

(* ------------------------------------------------------------------ *)
(* Warning bits and the unassigned bit 0x0400 (specification Spec)     *)
(* ------------------------------------------------------------------ *)
\* the seven warning bits, by bit number, with their descriptions
C18_Warning(k) ==
    CASE k = 15 -> "WARNING: Output Voltage Issue"
      [] k = 14 -> "WARNING: Output Current or Power Issue"
      [] k = 13 -> "WARNING: Input Voltage or Power Issue"
      [] k = 12 -> "WARNING: Manufacturer-Specific Issue"
      [] k = 11 -> "WARNING: Power Good Signal Lost"
      [] k = 9 -> "WARNING: Fan or Airflow Issue"
      [] k = 8 -> "WARNING: Other Status Warning"

C18_WarningBits == {15, 14, 13, 12, 11, 9, 8}

\* C18: after a completed readFaults, each warning bit set in the status
\* word has printed its own description exactly once and a warning bit that
\* is clear has printed nothing; a status word with only one warning bit set
\* prints the status line and that description and makes no secondary read;
\* the status word 0x0400 prints the status line only (no "No faults
\* detected.", no description), makes no secondary read and is returned.
C18_WarningBitsAndUnassigned ==
    \A i \in 1..Len(ops) :
       DoneReadFaults(i) =>
          LET st == FirstStatus(i)
          IN  /\ \A k \in C18_WarningBits :
                    /\ Count(serial, <<C18_Warning(k)>>) = Bit(st, k)
                    /\ st = 2 ^ k =>
                          /\ Len(serial) = 2
                          /\ serial[2] = <<C18_Warning(k)>>
                          /\ Len(Requests(i)) = 1
                          /\ Len(CmdFrames(i)) = 1
                          /\ ops[i].ret = st
              /\ st = 1024 =>
                    /\ serial = <<(<<"Fault Status: 0x", "4", "0", "0">>)>>
                    /\ Len(Requests(i)) = 1
                    /\ Len(CmdFrames(i)) = 1
                    /\ ops[i].ret = 1024
              /\ Bit(st, 10) = 1 =>
                    /\ Count(serial, <<"No faults detected.">>) = 0
                    /\ \A j \in 2..Len(serial) :
                          C17_Pos(serial[j]) # 0 =>
                             Bit(st, IF C17_Pos(serial[j]) <= 8
                                     THEN 8 - C17_Pos(serial[j])
                                     ELSE CHOOSE k \in C18_WarningBits :
                                             C18_Warning(k) = serial[j][1]) = 1

\* readFaults for status 0x0400 has returned
C18_Witness ==
    /\ DoneReadFaults(1)
    /\ FirstStatus(1) = 1024
    /\ Len(serial) = 1
    /\ ops[1].ret = 1024

(* ------------------------------------------------------------------ *)
(* Bracketing of the bus transactions (specification Spec)             *)
(* ------------------------------------------------------------------ *)
\* the beginTransmission and endTransmission calls of the log, in order
C19_Brackets ==
    SelectSeq(calls, LAMBDA e : e.f \in {"beginTransmission", "endTransmission"})

\* how many calls of f are among the first j calls of the log
C19_Before(f, j) == Cardinality({l \in 1..j : calls[l].f = f})

\* C19: in every state of a serialized run the beginTransmission and
\* endTransmission calls alternate, starting with a begin, and the two calls
\* of a pair belong to the same operation; a transaction is open exactly
\* between them and every write call falls inside one; an endTransmission
\* without stop occurs only in the reading operations and the very next
\* Wire call is requestFrom for 2 bytes at the address of the transaction;
\* an operation that has returned has ended every transmission it began, and
\* no transaction is open when no call is running.
C19_Bracketed ==
    LET B == C19_Brackets
    IN  /\ \A j \in 1..Len(B) :
              /\ B[j].f = IF j % 2 = 1 THEN "beginTransmission" ELSE "endTransmission"
              /\ j % 2 = 0 => B[j].n = B[j - 1].n
        /\ transmitting = (Len(B) % 2 = 1)
        /\ \A j \in 1..Len(calls) :
              /\ calls[j].f = "write" =>
                    C19_Before("beginTransmission", j) = C19_Before("endTransmission", j) + 1
              /\ (calls[j].f = "endTransmission" /\ calls[j].v = 0) =>
                    /\ ops[calls[j].n].op \notin WriteOps
                    /\ IF j = Len(calls)
                       THEN \E c \in Callers : th[c].n = calls[j].n /\ AtCall(c, "requestFrom")
                       ELSE /\ calls[j + 1].f = "requestFrom"
                            /\ calls[j + 1].n = calls[j].n
                            /\ calls[j + 1].v = 2
                            /\ calls[j + 1].a = txAddress
                            /\ calls[j + 1].a = address
              /\ (calls[j].f = "endTransmission" /\ calls[j].v # 0) =>
                    ops[calls[j].n].op \in WriteOps
        /\ \A i \in 1..Len(ops) :
              Done(i) =>
                 Len(SelectSeq(CallsOf(i), LAMBDA e : e.f = "beginTransmission"))
                    = Len(SelectSeq(CallsOf(i), LAMBDA e : e.f = "endTransmission"))
        /\ AllIdle => (transmitting = FALSE /\ \A i \in 1..Len(ops) : Done(i))

\* readFaults for status 0x003E has returned after six transactions, each
\* ended without stop and followed by its request, and none is left open
C19_Witness ==
    /\ DoneReadFaults(1)
    /\ FirstStatus(1) = 62
    /\ Len(C19_Brackets) = 12
    /\ \A j \in 1..Len(calls) :
          calls[j].f = "endTransmission" =>
             (calls[j].v = 0 /\ calls[j + 1].f = "requestFrom")
    /\ transmitting = FALSE

(* ------------------------------------------------------------------ *)
(* The word read behind the detail bytes (specification SpecDetail)    *)
(* ------------------------------------------------------------------ *)
\* the value readDetailedFault decodes, from what the transport delivered
C20_Value == IF Len(DetailGot) = 2 THEN DetailGot[1] ELSE 0

\* C20: the secondary read of a detail register is one command frame with
\* the register's code followed by one request for exactly 2 bytes; the
\* details line shows, and the detail lines are decoded from, the first
\* byte received alone, whatever the second byte is; when the transport
\* delivers exactly one byte the value shown is 0x0 and no detail line is
\* printed, whatever that byte is.
C20_WordReadLowByte ==
    DetailRun =>
       /\ Len(CmdFrames(1)) = 2
       /\ CmdFrames(1)[2] = Frame(1, "W", address, <<DetailReg>>, 0, 0)
       /\ Len(ReadFrames(1)) = 2
       /\ ReadFrames(1)[2].cnt = 2
       /\ Requests(1)[2].v = 2
       /\ serial[3] = <<C13_Type(DetailReg), " Details: 0x">> \o Hex(C20_Value)
       /\ DetailPrinted = PrintSet(DetailTable(DetailReg), C20_Value)
       /\ Len(DetailGot) = 1 =>
             /\ serial[3] = <<C13_Type(DetailReg), " Details: 0x", "0">>
             /\ DetailPrinted = <<>>
             /\ Len(serial) = 3

\* STATUS_VOUT answered with the bytes 0x88 0xFF: the details line shows 88
\* and the two lines of bits 7 and 3 follow
C20_Witness ==
    /\ DetailRun
    /\ DetailReg = 122
    /\ DetailGot = <<136, 255>>
    /\ serial[3] = <<"Output Voltage Fault", " Details: 0x", "8", "8">>
    /\ DetailPrinted = <<(<<" - Output Overvoltage Fault">>),
                         (<<" - Output Undervoltage Fault">>)>>

====
